---- MODULE Spec2Model ----
(***************************************************************************)
(* A model of mentpy's flow module (src/src/mentpy/state/flow.py):         *)
(* find_flow and its stages _build_path_cover / _augmented_search,         *)
(* _get_chain_decomposition, _compute_suprema / _traverse_infl_walk /      *)
(* _init_status, _flow_from_array, _get_flowgraph and _check_if_flow.      *)
(*                                                                         *)
(* The recursive procedures are modelled with an explicit call stack, one  *)
(* action per entry, per neighbour-loop iteration and per return, so that  *)
(* termination and Python faults are behaviours of the model and not       *)
(* properties of the way it is evaluated.                                  *)
(*                                                                         *)
(* Vertices are the integers 0..nV-1 (the code indexes numpy arrays of     *)
(* length len(state.graph) by vertex).  graph.neighbors(v) enumerates the  *)
(* adjacency of v in insertion order; the graphs of the model are built by *)
(* adding their edges in lexicographic order, so adj[v] is ascending.      *)
(***************************************************************************)
EXTENDS Integers, Sequences, FiniteSets, TLC

\* Bounds of the model.
MaxV == 5
MaxInputs == 2
MaxEdges == 4
MaxSupV == 4
MaxCheckV == 3

\* Status codes of the source.
FAIL == 0
SUCCESS == 1
UNVISITED == 0
PENDING == 1
FIXED == 2

VARIABLES
    nV,            \* len(state.graph); the vertices are 0..nV-1
    adj,           \* state.graph adjacency: adj[v] is the sequence graph.neighbors(v) yields
    input_nodes,   \* state.input_nodes (a list)
    output_nodes,  \* state.output_nodes
    pc,            \* position in find_flow
    outcome,       \* how find_flow ended: the exception raised, "None" or "Result"
    fam,           \* the path cover under construction (tau once built)
    visited,       \* attempt stamps
    iter,          \* the attempt counter of _build_path_cover
    stack,         \* call stack of _augmented_search
    ret,           \* status returned by the last _augmented_search call, -1 when none is pending
    f, P, L,       \* chain decomposition: successor, origin, depth
    ci, cv, cl,    \* _get_chain_decomposition: inputs done, current vertex (-1: none), depth
    sup, status,   \* supremum table and status tags
    sstack,        \* call stack of _traverse_infl_walk
    sidx,          \* position of _compute_suprema's loop in SupOrder
    called,        \* whether the loop's current vertex has had its traversal
    sigma,         \* what _compute_suprema returned: "unset", "None" or "table"
    calls,         \* calls[v]: times _traverse_infl_walk's body was entered for v
    top_order      \* the topological order handed back

gvars == <<nV, adj, input_nodes, output_nodes>>
coverVars == <<fam, visited, iter, stack, ret>>
chainVars == <<f, P, L, ci, cv, cl>>
supVars == <<sup, status, sstack, sidx, called, sigma, calls>>
vars == <<nV, adj, input_nodes, output_nodes, pc, outcome, fam, visited, iter,
          stack, ret, f, P, L, ci, cv, cl, sup, status, sstack, sidx, called,
          sigma, calls, top_order>>

----------------------------------------------------------------------------
\* The graph state.

V == 0 .. (nV - 1)

Range(s) == {s[j] : j \in 1 .. Len(s)}

InputSet == Range(input_nodes)

\* state.outputc
outputc == V \ output_nodes

RECURSIVE Sorted(_)
Sorted(S) ==
    IF S = {} THEN <<>>
    ELSE LET m == CHOOSE x \in S : \A y \in S : x <= y
         IN <<m>> \o Sorted(S \ {m})

Pairs(n) == {e \in (0 .. (n - 1)) \X (0 .. (n - 1)) : e[1] < e[2]}

\* Adjacency of the graph with edge set E on n vertices, edges added in
\* lexicographic order.
AdjOf(n, E) ==
    [v \in 0 .. (n - 1) |->
        Sorted({w \in 0 .. (n - 1) : <<v, w>> \in E \/ <<w, v>> \in E})]

Neighbors(v) == adj[v]

NbrSet(v) == Range(adj[v])

Zeros == [v \in V |-> 0]

----------------------------------------------------------------------------
\* The path cover: a networkx DiGraph, or None.

EmptyFam == [none |-> FALSE, nodes |-> {}, edges |-> {}]

NoneFam == [none |-> TRUE, nodes |-> {}, edges |-> {}]

\* mutant of AddEdge: the edge is added the wrong way round
AddEdgeReversed(fm, u, v) ==
    [fm EXCEPT !.nodes = @ \cup {u, v}, !.edges = @ \cup {<<v, u>>}]

\* fam.add_edge(u, v): adds both end points, in place
AddEdge(fm, u, v) ==
    [fm EXCEPT !.nodes = @ \cup {u, v}, !.edges = @ \cup {<<u, v>>}]

\* fam.remove_edge(u, v): in place, the nodes stay
RemoveEdge(fm, u, v) == [fm EXCEPT !.edges = @ \ {<<u, v>>}]

\* The value line 182 binds to fam: what remove_edge returns, which is None.
RemoveEdgeReturn(fm, u, v) == NoneFam

Preds(fm, v) == {p \in fm.nodes : <<p, v>> \in fm.edges}

Succs(fm, v) == {s \in fm.nodes : <<v, s>> \in fm.edges}

\* next(fam.predecessors(v))
Pred(fm, v) == CHOOSE p \in Preds(fm, v) : TRUE

\* next(C.successors(v))
Succ(fm, v) == CHOOSE s \in Succs(fm, v) : TRUE

----------------------------------------------------------------------------
\* find_flow, lines 35-41.

\* mutant of ShapeOk: the test lets through more outputs than inputs
ShapeOkAtMost == Len(input_nodes) <= Cardinality(output_nodes)

\* the shape test of line 36
ShapeOk == Len(input_nodes) = Cardinality(output_nodes)

FindFlow ==
    /\ pc = "find_flow"
    /\ IF ShapeOk
       THEN pc' = "build_path_cover" /\ outcome' = outcome
       ELSE pc' = "done" /\ outcome' = "ValueError"
    /\ UNCHANGED <<gvars, coverVars, chainVars, supVars, top_order>>

----------------------------------------------------------------------------
\* _build_path_cover and _augmented_search, lines 145-205.

Frame(v) == [v |-> v, st |-> "entry", k |-> 1]

Top == stack[Len(stack)]

Pop == SubSeq(stack, 1, Len(stack) - 1)

SetTop(fr) == [stack EXCEPT ![Len(stack)] = fr]

\* What a step of the search leaves behind.
Here == [fam |-> fam, stack |-> stack, ret |-> -1, pc |-> pc, outcome |-> outcome]

\* an uncaught Python exception unwinds every frame
Raise(e) == [Here EXCEPT !.stack = <<>>, !.pc = "done", !.outcome = e]

Return(fm, st) == [Here EXCEPT !.fam = fm, !.stack = Pop, !.ret = st]

Goto(fr) == [Here EXCEPT !.stack = SetTop(fr)]

Call(fr, v) == [Here EXCEPT !.stack = Append(SetTop(fr), Frame(v))]

Apply(r) ==
    /\ fam' = r.fam
    /\ stack' = r.stack
    /\ ret' = r.ret
    /\ pc' = r.pc
    /\ outcome' = r.outcome

\* lines 150-152
BuildPathCover ==
    /\ pc = "build_path_cover"
    /\ fam' = EmptyFam
    /\ visited' = Zeros
    /\ iter' = 0
    /\ stack' = <<>>
    /\ ret' = -1
    /\ pc' = "build"
    /\ UNCHANGED <<gvars, outcome, chainVars, supVars, top_order>>

\* mutant of Spans: the cover is handed back whatever it leaves out
SpansAny(fm) == TRUE

\* line 159: the cover is handed back only when it spans the graph
Spans(fm) == V \ fm.nodes = {}

\* line 42: the truth value of tau, a DiGraph (its number of nodes) or 0
Truthy(fm) == fm.nodes # {}

\* what find_flow does when _build_path_cover returned 0 (lines 42, 57-58)
NoCover == "UserWarning"

\* lines 153-162, and find_flow's test of tau (lines 42, 57-58)
BuildLoop ==
    /\ pc = "build"
    /\ stack = <<>>
    /\ IF ret = FAIL
       THEN \* lines 156-157: return status
            /\ pc' = "done" /\ outcome' = NoCover
            /\ UNCHANGED <<iter, stack>>
       ELSE IF iter < Len(input_nodes)
       THEN \* lines 153-155
            /\ iter' = iter + 1
            /\ stack' = <<Frame(input_nodes[iter + 1])>>
            /\ UNCHANGED <<pc, outcome>>
       ELSE \* lines 159-162
            /\ IF fam.none
               THEN pc' = "done" /\ outcome' = "AttributeError"
               ELSE IF Spans(fam) /\ Truthy(fam)
               THEN pc' = "chain_decomposition" /\ outcome' = outcome
               ELSE pc' = "done" /\ outcome' = NoCover
            /\ UNCHANGED <<iter, stack>>
    /\ ret' = -1
    /\ UNCHANGED <<gvars, fam, visited, chainVars, supVars, top_order>>

\* lines 170-180: the stamp, the output test, the step back along the chain
SearchEnter ==
    /\ pc = "build" /\ stack # <<>> /\ Top.st = "entry"
    /\ LET v == Top.v
           vis == [visited EXCEPT ![v] = iter]
       IN /\ visited' = vis
          /\ Apply(IF v \in output_nodes THEN Return(fam, SUCCESS)
                   ELSE IF fam.none THEN Raise("AttributeError")
                   ELSE IF v \in fam.nodes /\ v \notin InputSet
                        THEN IF Preds(fam, v) = {} THEN Raise("StopIteration")
                             ELSE IF vis[Pred(fam, v)] < iter
                                  THEN Call([Top EXCEPT !.st = "back"], Pred(fam, v))
                                  ELSE Goto([Top EXCEPT !.st = "loop"])
                        ELSE Goto([Top EXCEPT !.st = "loop"]))
    /\ UNCHANGED <<gvars, iter, chainVars, supVars, top_order>>

\* lines 181-183: back from the search of the predecessor
SearchBack ==
    /\ pc = "build" /\ stack # <<>> /\ Top.st = "back" /\ ret # -1
    /\ LET v == Top.v
       IN Apply(IF ret = SUCCESS
                THEN IF fam.none THEN Raise("AttributeError")
                     ELSE IF Preds(fam, v) = {} THEN Raise("StopIteration")
                     ELSE Return(RemoveEdgeReturn(fam, Pred(fam, v), v), SUCCESS)
                ELSE Goto([Top EXCEPT !.st = "loop"]))
    /\ UNCHANGED <<gvars, visited, iter, chainVars, supVars, top_order>>

\* lines 185-199 and 205: one neighbour of the loop, or its end
SearchLoop ==
    /\ pc = "build" /\ stack # <<>> /\ Top.st = "loop"
    /\ LET v == Top.v
           k == Top.k
           next == [Top EXCEPT !.k = k + 1]
       IN Apply(IF k > Len(Neighbors(v)) THEN Return(fam, FAIL)
                ELSE LET w == Neighbors(v)[k]
                     IN IF visited[w] < iter /\ w \notin InputSet
                        THEN IF fam.none THEN Raise("AttributeError")
                             ELSE IF <<v, w>> \in fam.edges THEN Goto(next)
                             ELSE IF w \notin fam.nodes
                                  THEN Call([Top EXCEPT !.st = "new"], w)
                             ELSE IF Preds(fam, w) = {} THEN Raise("StopIteration")
                             ELSE IF visited[Pred(fam, w)] < iter
                                  THEN Call([Top EXCEPT !.st = "pred"], Pred(fam, w))
                             ELSE Goto(next)
                        ELSE Goto(next))
    /\ UNCHANGED <<gvars, visited, iter, chainVars, supVars, top_order>>

\* lines 193-195: back from the search of an unclaimed neighbour
SearchNew ==
    /\ pc = "build" /\ stack # <<>> /\ Top.st = "new" /\ ret # -1
    /\ LET v == Top.v
           w == Neighbors(v)[Top.k]
       IN Apply(IF ret = SUCCESS
                THEN IF fam.none THEN Raise("AttributeError")
                     ELSE Return(AddEdge(fam, v, w), SUCCESS)
                ELSE Goto([Top EXCEPT !.st = "loop", !.k = @ + 1]))
    /\ UNCHANGED <<gvars, visited, iter, chainVars, supVars, top_order>>

\* lines 200-203: back from the search of a claimed neighbour's predecessor
SearchPred ==
    /\ pc = "build" /\ stack # <<>> /\ Top.st = "pred" /\ ret # -1
    /\ LET v == Top.v
           w == Neighbors(v)[Top.k]
       IN Apply(IF ret = SUCCESS
                THEN IF fam.none THEN Raise("AttributeError")
                     ELSE IF Preds(fam, w) = {} THEN Raise("StopIteration")
                     ELSE Return(AddEdge(RemoveEdge(fam, Pred(fam, w), w), v, w), SUCCESS)
                ELSE Goto([Top EXCEPT !.st = "loop", !.k = @ + 1]))
    /\ UNCHANGED <<gvars, visited, iter, chainVars, supVars, top_order>>

----------------------------------------------------------------------------
\* _get_chain_decomposition, lines 73-87.

\* lines 75-77
ChainDecomposition ==
    /\ pc = "chain_decomposition"
    /\ P' = Zeros
    /\ L' = Zeros
    /\ f' = [v \in V \ output_nodes |-> 0]
    /\ ci' = 0 /\ cv' = -1 /\ cl' = 0
    /\ pc' = "chain"
    /\ UNCHANGED <<gvars, outcome, coverVars, supVars, top_order>>

\* lines 78-79, and the return of line 87
ChainNext ==
    /\ pc = "chain" /\ cv = -1
    /\ IF ci < Len(input_nodes)
       THEN /\ ci' = ci + 1
            /\ cv' = input_nodes[ci + 1]
            /\ cl' = 0
            /\ pc' = pc
       ELSE /\ pc' = "compute_suprema"
            /\ UNCHANGED <<ci, cv, cl>>
    /\ UNCHANGED <<gvars, outcome, coverVars, f, P, L, supVars, top_order>>

\* lines 80-86: one turn of the while loop, or its exit.  A walk of more than
\* nV steps is on a cycle of the cover and never ends: the guard stops it.
ChainStep ==
    /\ pc = "chain" /\ cv # -1 /\ cl <= nV
    /\ LET i == input_nodes[ci]
       IN IF cv \notin output_nodes
          THEN IF Succs(fam, cv) = {}
               THEN /\ pc' = "done" /\ outcome' = "StopIteration"
                    /\ UNCHANGED <<f, P, L, cv, cl>>
               ELSE /\ f' = [f EXCEPT ![cv] = Succ(fam, cv)]
                    /\ P' = [P EXCEPT ![cv] = i]
                    /\ L' = [L EXCEPT ![cv] = cl]
                    /\ cv' = Succ(fam, cv)
                    /\ cl' = cl + 1
                    /\ UNCHANGED <<pc, outcome>>
          ELSE /\ P' = [P EXCEPT ![cv] = i]
               /\ L' = [L EXCEPT ![cv] = cl]
               /\ cv' = -1
               /\ UNCHANGED <<f, cl, pc, outcome>>
    /\ UNCHANGED <<gvars, coverVars, ci, supVars, top_order>>

----------------------------------------------------------------------------
\* _compute_suprema, _traverse_infl_walk, _init_status, lines 90-142.

\* vertex2index, 1-based
InputIdx == 1 .. Len(input_nodes)

\* _init_status, lines 130-138
InitSup(p, l) ==
    [j \in InputIdx |-> [v \in V |-> IF input_nodes[j] = p[v] THEN l[v] ELSE nV]]

\* _init_status, lines 132 and 140
InitStatus == [v \in V |-> IF v \in output_nodes THEN FIXED ELSE UNVISITED]

\* mutant of Tighten: the entry is overwritten without the comparison
TightenAlways(s, v, w) ==
    [j \in InputIdx |-> [s[j] EXCEPT ![v] = s[j][w]]]

\* lines 118-120
Tighten(s, v, w) ==
    [j \in InputIdx |-> [s[j] EXCEPT ![v] = IF s[j][v] > s[j][w] THEN s[j][w] ELSE @]]

\* the order in which line 96 visits set(nodes) - set(output_nodes)
SupOrder == Sorted(V \ output_nodes)

\* line 95
ComputeSuprema ==
    /\ pc = "compute_suprema"
    /\ sup' = InitSup(P, L)
    /\ status' = InitStatus
    /\ sstack' = <<>>
    /\ sidx' = 1
    /\ called' = FALSE
    /\ calls' = Zeros
    /\ pc' = "suprema"
    /\ UNCHANGED <<gvars, outcome, coverVars, chainVars, sigma, top_order>>

\* lines 96-103
SupLoop ==
    /\ pc = "suprema" /\ sstack = <<>>
    /\ IF sidx > Len(SupOrder)
       THEN \* line 103
            /\ sigma' = "table" /\ pc' = "sigma"
            /\ UNCHANGED <<sstack, sidx, called>>
       ELSE LET v == SupOrder[sidx]
            IN IF status[v] = UNVISITED /\ ~called
               THEN \* lines 97-98
                    /\ sstack' = <<Frame(v)>>
                    /\ called' = TRUE
                    /\ UNCHANGED <<sigma, pc, sidx>>
               ELSE IF status[v] = PENDING
               THEN \* lines 100-101
                    /\ sigma' = "None" /\ pc' = "sigma"
                    /\ UNCHANGED <<sstack, sidx, called>>
               ELSE /\ sidx' = sidx + 1
                    /\ called' = FALSE
                    /\ UNCHANGED <<sigma, pc, sstack>>
    /\ UNCHANGED <<gvars, outcome, coverVars, chainVars, sup, status, calls, top_order>>

STop == sstack[Len(sstack)]

SPop == SubSeq(sstack, 1, Len(sstack) - 1)

\* mutant of Entered: the vertex is marked fixed as its walk starts
EnteredFixed == FIXED

\* the status line 108 gives the vertex whose walk starts
Entered == PENDING

\* lines 108-109
TravEnter ==
    /\ pc = "suprema" /\ sstack # <<>> /\ STop.st = "entry"
    /\ status' = [status EXCEPT ![STop.v] = Entered]
    /\ calls' = [calls EXCEPT ![STop.v] = @ + 1]
    /\ sstack' = [sstack EXCEPT ![Len(sstack)].st = "loop"]
    /\ UNCHANGED <<gvars, pc, outcome, coverVars, chainVars, sup, sidx, called,
                   sigma, top_order>>

\* lines 111-122: one neighbour of the loop (before or after the recursive
\* call for it), or the end of the loop
TravLoop ==
    /\ pc = "suprema" /\ sstack # <<>> /\ STop.st \in {"loop", "called"}
    /\ LET v == STop.v
           k == STop.k
           ahead == [sstack EXCEPT ![Len(sstack)] = [v |-> v, st |-> "loop", k |-> k + 1]]
       IN IF k > Len(Neighbors(v))
          THEN \* lines 121-122
               /\ status' = [status EXCEPT ![v] = FIXED]
               /\ sstack' = SPop
               /\ sup' = sup
          ELSE LET w == Neighbors(v)[k]
               IN IF w = f[v] /\ w # v
                  THEN IF status[w] = UNVISITED /\ STop.st = "loop"
                       THEN \* lines 113-114
                            /\ sstack' = Append([sstack EXCEPT ![Len(sstack)].st = "called"],
                                                Frame(w))
                            /\ UNCHANGED <<sup, status>>
                       ELSE IF status[w] = PENDING
                       THEN \* lines 115-116
                            /\ sstack' = SPop
                            /\ UNCHANGED <<sup, status>>
                       ELSE \* lines 118-120
                            /\ sup' = Tighten(sup, v, w)
                            /\ sstack' = ahead
                            /\ status' = status
                  ELSE /\ sstack' = ahead
                       /\ UNCHANGED <<sup, status>>
    /\ UNCHANGED <<gvars, pc, outcome, coverVars, chainVars, sidx, called, sigma,
                   calls, top_order>>

----------------------------------------------------------------------------
\* find_flow, lines 46-58: the result.

\* what find_flow does when sigma is None: it falls off the end of the
\* function (the else of line 57 belongs to the test of tau) and returns None
NoSigma == "None"

\* line 46
SigmaTest ==
    /\ pc = "sigma"
    /\ IF sigma = "None"
       THEN pc' = "done" /\ outcome' = NoSigma
       ELSE pc' = "assemble" /\ outcome' = outcome
    /\ UNCHANGED <<gvars, coverVars, chainVars, supVars, top_order>>

\* _flow_from_array, lines 61-70: flow(v) for v in state.outputc
flow(v) == f[v]

\* _get_flowgraph, lines 222-228: the nodes and edges of H
FlowNodes == outputc \cup {flow(v) : v \in outputc}

FlowEdges == {<<v, flow(v)>> : v \in outputc}

\* nx.topological_sort: the linear extensions of the digraph (nodes N, edges E)
RECURSIVE TopSorts(_, _)
TopSorts(N, E) ==
    IF N = {} THEN {<<>>}
    ELSE UNION {{<<v>> \o s : s \in TopSorts(N \ {v}, E)} :
                v \in {x \in N : \A e \in E : ~(e[2] = x /\ e[1] \in N)}}

\* lines 47-50
Assemble ==
    /\ pc = "assemble"
    /\ IF TopSorts(FlowNodes, FlowEdges) = {}
       THEN pc' = "done" /\ outcome' = "NetworkXUnfeasible" /\ top_order' = top_order
       ELSE /\ \E o \in TopSorts(FlowNodes, FlowEdges) : top_order' = o
            /\ pc' = "state_flow" /\ outcome' = outcome
    /\ UNCHANGED <<gvars, coverVars, chainVars, supVars>>

\* top_order.index(x), 1-based; 0 stands for the ValueError of a missing x
Index(o, x) == IF x \in Range(o) THEN CHOOSE j \in 1 .. Len(o) : o[j] = x ELSE 0

\* what is left of the iterator nfi once `i in nfi` has run (line 213): the
\* neighbours after i, or nothing when i is not among them
Rest(nb, i) ==
    IF i \in Range(nb)
    THEN {nb[j] : j \in {j \in 1 .. Len(nb) : \E h \in 1 .. (j - 1) : nb[h] = i}}
    ELSE {}

\* _check_if_flow, lines 208-219
CheckIfFlow(o) ==
    \A i \in outputc :
        LET nfi == Neighbors(flow(i))
            c1 == i \in Range(nfi)
            c2 == Index(o, i) < Index(o, flow(i))
            c3 == \A k \in Rest(nfi, i) \ {i} : Index(o, i) < Index(o, k)
        IN c1 /\ c2 /\ c3

\* lines 51 and 56 with sanity_check false
ReturnFlow ==
    /\ pc = "state_flow"
    /\ pc' = "done" /\ outcome' = "Result"
    /\ UNCHANGED <<gvars, coverVars, chainVars, supVars, top_order>>

\* the vertices whose position _check_if_flow asks top_order for
Asked == UNION {{i, flow(i)} \cup (Rest(Neighbors(flow(i)), i) \ {i}) : i \in outputc}

\* lines 51-56 with sanity_check true
ReturnCheckedFlow ==
    /\ pc = "state_flow"
    /\ pc' = "done"
    /\ outcome' = IF ~(Asked \subseteq Range(top_order)) THEN "IndexValueError"
                  ELSE IF CheckIfFlow(top_order) THEN "CheckedResult"
                  ELSE "RuntimeError"
    /\ UNCHANGED <<gvars, coverVars, chainVars, supVars, top_order>>

----------------------------------------------------------------------------
\* The specifications.

\* nothing of the search exists yet
Unset(n, ins, outs) ==
    /\ fam = EmptyFam
    /\ visited = [v \in 0 .. (n - 1) |-> 0]
    /\ iter = 0
    /\ stack = <<>>
    /\ ret = -1
    /\ f = [v \in (0 .. (n - 1)) \ outs |-> 0]
    /\ P = [v \in 0 .. (n - 1) |-> 0]
    /\ L = [v \in 0 .. (n - 1) |-> 0]
    /\ ci = 0 /\ cv = -1 /\ cl = 0
    /\ sup = [j \in 1 .. Len(ins) |-> [v \in 0 .. (n - 1) |-> 0]]
    /\ status = [v \in 0 .. (n - 1) |-> 0]
    /\ sstack = <<>>
    /\ sidx = 0
    /\ called = FALSE
    /\ sigma = "unset"
    /\ calls = [v \in 0 .. (n - 1) |-> 0]
    /\ top_order = <<>>

\* the first k vertices, in order
FirstInputs(k) == [j \in 1 .. k |-> j - 1]

\* find_flow on the graph states of at most MaxV vertices and MaxEdges edges
\* whose inputs are their first vertices, at most MaxInputs of them, and whose
\* outputs are any set of at most MaxInputs vertices
Init ==
    /\ nV \in 1 .. MaxV
    /\ \E E \in SUBSET Pairs(nV) :
          /\ Cardinality(E) <= MaxEdges
          /\ adj = AdjOf(nV, E)
    /\ \E k \in 0 .. MaxInputs : k <= nV /\ input_nodes = FirstInputs(k)
    /\ output_nodes \in {O \in SUBSET (0 .. (nV - 1)) : Cardinality(O) <= MaxInputs}
    /\ pc = "find_flow"
    /\ outcome = "running"
    /\ Unset(nV, input_nodes, output_nodes)

Next ==
    \/ FindFlow
    \/ BuildPathCover
    \/ BuildLoop
    \/ SearchEnter
    \/ SearchBack
    \/ SearchLoop
    \/ SearchNew
    \/ SearchPred
    \/ ChainDecomposition
    \/ ChainNext
    \/ ChainStep
    \/ ComputeSuprema
    \/ SupLoop
    \/ TravEnter
    \/ TravLoop
    \/ SigmaTest
    \/ Assemble
    \/ ReturnFlow
    \/ ReturnCheckedFlow

Spec == Init /\ [][Next]_vars

\* _compute_suprema (and find_flow's test of what it returns) on the graph
\* states of at most MaxSupV vertices with as many inputs as outputs, for every
\* successor map that sends each non-output vertex to one of its neighbours
InitSuprema ==
    /\ nV \in 1 .. MaxSupV
    /\ \E E \in SUBSET Pairs(nV) :
          /\ Cardinality(E) <= MaxEdges
          /\ adj = AdjOf(nV, E)
    /\ output_nodes \in {O \in SUBSET (0 .. (nV - 1)) : Cardinality(O) <= MaxInputs}
    /\ input_nodes = FirstInputs(Cardinality(output_nodes))
    /\ pc = "compute_suprema"
    /\ outcome = "running"
    /\ fam = EmptyFam
    /\ visited = [v \in 0 .. (nV - 1) |-> 0]
    /\ iter = 0
    /\ stack = <<>>
    /\ ret = -1
    /\ f \in [(0 .. (nV - 1)) \ output_nodes -> 0 .. (nV - 1)]
    /\ \A v \in DOMAIN f : f[v] \in Range(adj[v])
    /\ P = [v \in 0 .. (nV - 1) |-> 0]
    /\ L = [v \in 0 .. (nV - 1) |-> v]
    /\ ci = 0 /\ cv = -1 /\ cl = 0
    /\ sup = [j \in 1 .. Len(input_nodes) |-> [v \in 0 .. (nV - 1) |-> 0]]
    /\ status = [v \in 0 .. (nV - 1) |-> 0]
    /\ sstack = <<>>
    /\ sidx = 0
    /\ called = FALSE
    /\ sigma = "unset"
    /\ calls = [v \in 0 .. (nV - 1) |-> 0]
    /\ top_order = <<>>

NextSuprema ==
    \/ ComputeSuprema
    \/ SupLoop
    \/ TravEnter
    \/ TravLoop
    \/ SigmaTest

SpecSuprema == InitSuprema /\ [][NextSuprema]_vars

\* _check_if_flow, as find_flow calls it, on the graph states of at most
\* MaxCheckV vertices, for every map flow and every total order of the vertices
InitCheck ==
    /\ nV \in 1 .. MaxCheckV
    /\ \E E \in SUBSET Pairs(nV) : adj = AdjOf(nV, E)
    /\ input_nodes = <<>>
    /\ output_nodes \in SUBSET (0 .. (nV - 1))
    /\ pc = "state_flow"
    /\ outcome = "running"
    /\ fam = EmptyFam
    /\ visited = [v \in 0 .. (nV - 1) |-> 0]
    /\ iter = 0
    /\ stack = <<>>
    /\ ret = -1
    /\ f \in [(0 .. (nV - 1)) \ output_nodes -> 0 .. (nV - 1)]
    /\ P = [v \in 0 .. (nV - 1) |-> 0]
    /\ L = [v \in 0 .. (nV - 1) |-> 0]
    /\ ci = 0 /\ cv = -1 /\ cl = 0
    /\ sup = <<>>
    /\ status = [v \in 0 .. (nV - 1) |-> 0]
    /\ sstack = <<>>
    /\ sidx = 0
    /\ called = FALSE
    /\ sigma = "table"
    /\ calls = [v \in 0 .. (nV - 1) |-> 0]
    /\ top_order \in TopSorts(0 .. (nV - 1), {})

NextCheck == ReturnCheckedFlow

SpecCheck == InitCheck /\ [][NextCheck]_vars

\* The scheduling of a single-threaded call: it takes its next step.
FairSpec == Spec /\ WF_vars(Next)

----------------------------------------------------------------------------
\* What the claims speak of.

\* f applied n times to v; -1 once an output vertex is left behind
RECURSIVE FIter(_, _)
FIter(v, n) ==
    IF n = 0 THEN v
    ELSE IF v \notin DOMAIN f THEN -1
    ELSE FIter(f[v], n - 1)

\* following successors from v reaches an output vertex in at most |V| steps
ReachesOutput(v) == \E n \in 0 .. nV : FIter(v, n) \in output_nodes

\* the vertices met on the way
WalkSet(v) == {FIter(v, n) : n \in 0 .. nV} \ {-1}

\* the functional graph v -> f[v] has a cycle among the non-output vertices
HasCycle == \E v \in V \ output_nodes : \E n \in 1 .. nV : FIter(v, n) = v

Before(o, a, b) ==
    /\ a \in Range(o) /\ b \in Range(o)
    /\ Index(o, a) < Index(o, b)

\* the three flow conditions, for every v in OutputComplement
WellFormed(o) ==
    \A v \in outputc :
        /\ flow(v) \in NbrSet(v)
        /\ Before(o, v, flow(v))
        /\ \A k \in NbrSet(flow(v)) \ {v} : Before(o, v, k)

Succeeded == outcome \in {"Result", "CheckedResult"}

EqualShape == Len(input_nodes) = Cardinality(output_nodes)

\* the path graph on 0..nV-1 with Input = [0] and Output = {nV-1}
PathGraph ==
    /\ nV >= 2
    /\ input_nodes = <<0>>
    /\ output_nodes = {nV - 1}
    /\ adj = AdjOf(nV, {<<k, k + 1>> : k \in 0 .. (nV - 2)})

\* C1: whenever find_flow hands back (flow, order), every v in outputc is
\* adjacent to flow(v), comes before flow(v) and comes before every other
\* neighbour of flow(v) in the order; and the validation never raises.
C1_ResultWellFormed ==
    /\ Succeeded => WellFormed(top_order)
    /\ outcome # "RuntimeError"

\* C2: with |Input| # |Output| find_flow ends with the input-shape error and
\* nothing of the path cover, chain decomposition, suprema or order is ever
\* created or touched.
C2_ShapeErrorFirst ==
    Len(input_nodes) # Cardinality(output_nodes) =>
        /\ pc \in {"find_flow", "done"}
        /\ pc = "done" => outcome = "ValueError"
        /\ Unset(nV, input_nodes, output_nodes)

C2_Witness ==
    /\ pc = "done" /\ outcome = "ValueError"
    /\ Len(input_nodes) = 1 /\ Cardinality(output_nodes) = 2

C4_PathGraph ==
    (pc = "done" /\ PathGraph) =>
        /\ Succeeded
        /\ \A v \in 0 .. (nV - 2) : flow(v) = v + 1
        /\ top_order = [j \in 1 .. nV |-> j - 1]

C4_Witness ==
    /\ pc = "done" /\ outcome = "Result" /\ nV = 5 /\ PathGraph
    /\ flow(1) = 2

\* C5: whenever find_flow succeeds, the cover is a family of vertex-disjoint
\* paths spanning V, every non-output vertex has the one successor its chain
\* walk gave it, every vertex lies on the chain of exactly one input (its
\* origin), and every input reaches an output vertex in at most |V| steps.
C5_ChainsWellFormed ==
    Succeeded =>
        /\ ~fam.none /\ fam.nodes = V
        /\ \A v \in V : Cardinality(Preds(fam, v)) <= 1 /\ Cardinality(Succs(fam, v)) <= 1
        /\ \A v \in V \ output_nodes : Succs(fam, v) = {f[v]}
        /\ \A v \in V : Cardinality({j \in InputIdx : v \in WalkSet(input_nodes[j])}) = 1
        /\ \A j \in InputIdx : \A v \in WalkSet(input_nodes[j]) : P[v] = input_nodes[j]
        /\ \A j \in InputIdx : ReachesOutput(input_nodes[j])

C5_Witness ==
    /\ outcome = "Result" /\ nV = 5 /\ Len(input_nodes) = 2
    /\ \E v \in V \ output_nodes : f[v] # 0 /\ L[v] = 1

\* C6: with |Input| = |Output| find_flow ends with a (flow, order) result or
\* with the no-flow outcome, and in no other fault.
C6_ResultOrNoFlow ==
    (EqualShape /\ pc = "done") =>
        outcome \in {"Result", "CheckedResult", NoCover, NoSigma}

\* with |Input| = |Output| find_flow comes to an end
Terminates == <>(pc = "done")

\* C7: when the search at v has stepped back to the predecessor p of v and the
\* search from p succeeds, the search at v reports success and hands back the
\* cover the recursive search left, less the edge p -> v.
C7_DetachHandsBackCover ==
    [][(pc = "build" /\ stack # <<>> /\ Top.st = "back" /\ ret = SUCCESS) =>
          /\ fam' = RemoveEdge(fam, Pred(fam, Top.v), Top.v)
          /\ ret' = SUCCESS
          /\ pc' = "build"]_vars

\* C8: _compute_suprema reports NoFlow exactly when the successor map has a
\* cycle among the non-output vertices; otherwise every vertex ends resolved;
\* and the traversal body runs at most once on each vertex.
C8_NoFlowIffCycle ==
    /\ \A v \in V : calls[v] <= 1
    /\ sigma # "unset" => (sigma = "None" <=> HasCycle)
    /\ sigma = "table" => \A v \in V : status[v] = FIXED

C8_Witness ==
    /\ pc = "sigma" /\ sigma = "None" /\ HasCycle
    /\ \E v \in V : status[v] = FIXED /\ calls[v] = 1

\* C9: the validator accepts exactly when the three flow conditions hold for
\* every v in OutputComplement.
C9_ValidatorExact == pc = "done" => (outcome = "CheckedResult" <=> WellFormed(top_order))

====
